---------------------------- MODULE Spec2Model ----------------------------
(***************************************************************************)
(* A model of src/src/main.rs: the per-station min/mean/max aggregation   *)
(* of a "<station>;<temperature>" file.  Strings are sequences of byte    *)
(* values (str::as_bytes), StationData fields are i8 as in the source, and *)
(* the hashbrown tables are functions from station names to StationData.   *)
(*                                                                         *)
(* i8 arithmetic: `+`, `*` and unary `-` panic on overflow when the crate  *)
(* is built with overflow checks (the dev profile) and wrap modulo 2^8     *)
(* when built without (the release profile).  The build is not fixed by    *)
(* the source, so overflow_checks is chosen in Init.                       *)
(***************************************************************************)
EXTENDS Integers, Sequences, FiniteSets, TLC

VARIABLES
    overflow_checks,    \* TRUE: overflow panics; FALSE: overflow wraps
    io,                 \* what the file system answers to open and mmap
    content,            \* the mapped file as par_lines sees it: its lines
    pc,                 \* main's position
    parts,              \* rayon's split of the lines, each with its fold state
    last_reduce,        \* history: the latest call of the reduce closure
    aggregated_results, \* main.rs:56
    formatted_results,  \* main.rs:72
    output_result,      \* main.rs:89
    stdout,             \* what println! at main.rs:100 has written
    ppc,                \* parse_temperature's position (ParseSpec)
    temp_str,           \* parse_temperature's argument
    idx,                \* bytes of temp_str consumed by the loop
    temp,               \* main.rs:138
    negative,           \* main.rs:139
    decimal_found,      \* main.rs:140
    ret                 \* parse_temperature's return value

vars == <<overflow_checks, io, content, pc, parts, last_reduce,
          aggregated_results, formatted_results, output_result, stdout,
          ppc, temp_str, idx, temp, negative, decimal_found, ret>>

mainVars == <<io, content, pc, parts, last_reduce, aggregated_results,
              formatted_results, output_result, stdout>>

parseVars == <<ppc, temp_str, idx, temp, negative, decimal_found, ret>>

---------------------------------------------------------------------------
(* Bounds of the model. *)

\* Longest input, in lines.
MaxLines == 3

\* Most pieces rayon splits the lines into.
MaxParts == 3

\* Most integer digits of a value token given to parse_temperature alone.
MaxIntDigits == 2

---------------------------------------------------------------------------
(* Bytes the source names. *)

I8_MAX == 127

I8_MIN == -128

SEMI == 59

MINUS == 45

DOT == 46

ZERO == 48

OPEN_BRACE == 123

CLOSE_BRACE == 125

NEWLINE == 10

SLASH == 47

EQUALS == 61

COMMA == 44

SPACE == 32

---------------------------------------------------------------------------
(* i8 arithmetic. *)

InI8(x) == I8_MIN <= x /\ x <= I8_MAX

\* The two's complement value of x in 8 bits.
Wrap8(x) == ((x - I8_MIN) % 256) + I8_MIN

\* The outcome of an i8 operation whose mathematical result is x.
I8Result(x) ==
    IF InI8(x) THEN [panic |-> FALSE, v |-> x]
    ELSE [panic |-> overflow_checks, v |-> Wrap8(x)]

i8_add(a, b) == I8Result(a + b)

i8_mul(a, b) == I8Result(a * b)

i8_neg(a) == I8Result(0 - a)

min(a, b) == IF b < a THEN b ELSE a

max(a, b) == IF b > a THEN b ELSE a

---------------------------------------------------------------------------
(* StationData. *)

StationData_new ==
    [min_temp |-> I8_MAX, max_temp |-> I8_MIN, total_temp |-> 0, count |-> 0]

update(self, t) ==
    LET total == i8_add(self.total_temp, t)
        cnt == IF total.panic THEN total ELSE i8_add(self.count, 1)
    IN  [panic |-> total.panic \/ cnt.panic,
         v |-> [min_temp |-> min(self.min_temp, t),
                max_temp |-> max(self.max_temp, t),
                total_temp |-> total.v,
                count |-> cnt.v]]

aggregate(self, other) ==
    LET total == i8_add(self.total_temp, other.total_temp)
        cnt == IF total.panic THEN total ELSE i8_add(self.count, other.count)
    IN  [panic |-> total.panic \/ cnt.panic,
         v |-> [min_temp |-> min(self.min_temp, other.min_temp),
                max_temp |-> max(self.max_temp, other.max_temp),
                total_temp |-> total.v,
                count |-> cnt.v]]

---------------------------------------------------------------------------
(* split_once and parse_temperature. *)

\* bytes.iter().position(|&b| b == delimiter): 0 stands for None.
position(bytes, delimiter) ==
    IF \E i \in 1..Len(bytes) : bytes[i] = delimiter
    THEN CHOOSE i \in 1..Len(bytes) :
            /\ bytes[i] = delimiter
            /\ \A j \in 1..(i - 1) : bytes[j] # delimiter
    ELSE 0

split_once(input, delimiter) ==
    LET pos == position(input, delimiter)
    IN  IF pos # 0
        THEN <<SubSeq(input, 1, pos - 1), SubSeq(input, pos + 1, Len(input))>>
        ELSE <<input, <<>> >>

is_ascii_digit(byte) == ZERO <= byte /\ byte <= ZERO + 9

\* The loop's locals before its first iteration.
ParseStart == [temp |-> 0, negative |-> FALSE, decimal_found |-> FALSE, panic |-> FALSE]

\* One iteration of the loop over the bytes.
ParseByte(s, byte) ==
    IF s.panic THEN s
    ELSE IF byte = MINUS THEN [s EXCEPT !.negative = TRUE]
    ELSE IF byte = DOT THEN [s EXCEPT !.decimal_found = TRUE]
    ELSE IF is_ascii_digit(byte)
    THEN LET m == i8_mul(s.temp, 10)
             a == IF m.panic THEN m ELSE i8_add(m.v, byte - ZERO)
         IN  [temp |-> a.v, negative |-> s.negative,
              decimal_found |-> FALSE, panic |-> a.panic]
    ELSE s

\* The value returned after the loop.
ParseReturn(s) ==
    IF s.panic THEN [panic |-> TRUE, v |-> s.temp]
    ELSE IF s.negative THEN i8_neg(s.temp)
    ELSE [panic |-> FALSE, v |-> s.temp]

RECURSIVE ParseLoop(_, _, _)
ParseLoop(s, bytes, i) ==
    IF i > Len(bytes) THEN s ELSE ParseLoop(ParseByte(s, bytes[i]), bytes, i + 1)

parse_temperature(str) == ParseReturn(ParseLoop(ParseStart, str, 1))

---------------------------------------------------------------------------
(* The fold and the reduce closures. *)

HashMap_new == [k \in {} |-> StationData_new]

\* acc.entry(k).and_modify(..).or_insert(..) leaving d at k.
Insert(acc, k, d) == [x \in DOMAIN acc \cup {k} |-> IF x = k THEN d ELSE acc[x]]

process_line(acc, line) ==
    LET sp == split_once(line, SEMI)
        station == sp[1]
        t == parse_temperature(sp[2])
        data == IF station \in DOMAIN acc
                THEN update(acc[station], t.v)
                ELSE update(StationData_new, t.v)
    IN  IF t.panic THEN [panic |-> TRUE, v |-> acc]
        ELSE [panic |-> data.panic, v |-> Insert(acc, station, data.v)]

\* A reduce without its or_insert: only entries acc already has are kept.
reduce_modify_only(acc, h) ==
    LET both == DOMAIN acc \cap DOMAIN h
    IN  [panic |-> \E k \in both : aggregate(acc[k], h[k]).panic,
         v |-> [k \in DOMAIN acc |->
                  IF k \in both THEN aggregate(acc[k], h[k]).v ELSE acc[k]]]

\* The reduce closure: every entry of h is aggregated into or inserted in acc.
reduce_op(acc, h) ==
    LET both == DOMAIN acc \cap DOMAIN h
    IN  [panic |-> \E k \in both : aggregate(acc[k], h[k]).panic,
         v |-> [k \in DOMAIN acc \cup DOMAIN h |->
                  IF k \in both THEN aggregate(acc[k], h[k]).v
                  ELSE IF k \in DOMAIN h THEN h[k]
                  ELSE acc[k]]]

---------------------------------------------------------------------------
(* The formatter: format!("{:.1}") of f32 values, sort, concatenation. *)

\* The decimal digits of n >= 0.
RECURSIVE Digits(_)
Digits(n) == IF n < 10 THEN <<ZERO + n>> ELSE Digits(n \div 10) \o <<ZERO + (n % 10)>>

\* A value of `tenths` tenths printed with one fractional digit.
Fmt1(neg, tenths) ==
    (IF neg THEN <<MINUS>> ELSE <<>>)
        \o Digits(tenths \div 10) \o <<DOT>> \o <<ZERO + (tenths % 10)>>

Abs(x) == IF x < 0 THEN 0 - x ELSE x

\* format!("{:.1}", v as f32 / 10.0): v / 10 is within half an ulp of a
\* one-digit decimal, which is what is printed.
FmtTenths(v) == Fmt1(v < 0, Abs(v))

\* The least power of two p with j * p >= 20 * 2^23.
RECURSIVE F32Scale(_, _)
F32Scale(j, p) == IF j * p >= 167772160 THEN p ELSE F32Scale(j, 2 * p)

\* Where the f32 nearest to j / 20 lies: -1 below j / 20, 0 on it, 1 above
\* (24-bit significand, round to nearest, ties to even).
F32Side(j) ==
    LET x == j * F32Scale(j, 1)
        m == x \div 20
        rem == x % 20
    IN  IF rem = 0 THEN 0
        ELSE IF rem < 10 THEN -1
        ELSE IF rem > 10 THEN 1
        ELSE IF m % 2 = 0 THEN -1 ELSE 1

\* The tenths printed for the f32 quotient n / d (n >= 0, d > 0): the quotient
\* is rounded to f32 first, then to one decimal, ties to even.
RoundTenthsF32(n, d) ==
    LET t == (10 * n) \div d
        r == (10 * n) % d
        side == F32Side(2 * t + 1)
    IN  IF 2 * r < d THEN t
        ELSE IF 2 * r > d THEN t + 1
        ELSE IF side < 0 THEN t
        ELSE IF side > 0 THEN t + 1
        ELSE IF t % 2 = 0 THEN t ELSE t + 1

\* format!("{:.1}", mean) with mean = total as f32 / (count as f32 * 10.0).
FmtMean(total, count) ==
    LET den == count * 10
    IN  IF den = 0
        THEN IF total = 0 THEN <<78, 97, 78>>
             ELSE IF total > 0 THEN <<105, 110, 102>>
             ELSE <<MINUS, 105, 110, 102>>
        ELSE Fmt1((total < 0 /\ den > 0) \/ (total >= 0 /\ den < 0),
                  RoundTenthsF32(Abs(total), Abs(den)))

\* The closure of main.rs:74: "min/mean/max".
format_result(data) ==
    FmtTenths(data.min_temp) \o <<SLASH>> \o FmtMean(data.total_temp, data.count)
        \o <<SLASH>> \o FmtTenths(data.max_temp)

\* a.cmp(b) on strings: byte-lexicographic; -1 Less, 0 Equal, 1 Greater.
str_cmp(a, b) ==
    LET diff == {i \in 1..min(Len(a), Len(b)) : a[i] # b[i]}
    IN  IF diff # {}
        THEN LET i == CHOOSE x \in diff : \A y \in diff : x <= y
             IN  IF a[i] < b[i] THEN -1 ELSE 1
        ELSE IF Len(a) < Len(b) THEN -1
        ELSE IF Len(a) > Len(b) THEN 1
        ELSE 0

\* The comparator of main.rs:91.
by_station(a, b) == str_cmp(a[1], b[1])

RECURSIVE SortInsert(_, _)
SortInsert(sorted, e) ==
    IF sorted = <<>> THEN <<e>>
    ELSE IF by_station(e, Head(sorted)) < 0 THEN <<e>> \o sorted
    ELSE <<Head(sorted)>> \o SortInsert(Tail(sorted), e)

RECURSIVE SortFrom(_, _)
SortFrom(sorted, rest) ==
    IF rest = <<>> THEN sorted ELSE SortFrom(SortInsert(sorted, Head(rest)), Tail(rest))

\* A vector left unsorted.
unsorted(v) == v

\* formatted_results.sort_unstable_by(..): the vector in the comparator's order.
sort_unstable_by(v) == SortFrom(<<>>, v)

\* The loop of main.rs:92: "[, ]station=result" for each entry in turn.
RECURSIVE Entries(_, _)
Entries(v, i) ==
    IF i > Len(v) THEN <<>>
    ELSE (IF i > 1 THEN <<COMMA, SPACE>> ELSE <<>>)
            \o v[i][1] \o <<EQUALS>> \o v[i][2] \o Entries(v, i + 1)

\* An output block that lacks its closing brace.
unclosed_output(v) == <<OPEN_BRACE>> \o Entries(v, 1) \o <<NEWLINE>>

\* output_result after main.rs:89-97, for the sorted vector v.
build_output(v) == <<OPEN_BRACE>> \o Entries(v, 1) \o <<CLOSE_BRACE, NEWLINE>>

---------------------------------------------------------------------------
(* Inputs. *)

\* The lines an input is made of:
\*   "B;10.0"  "B;-10.0"  "A;12.8"  "AB" (no delimiter)
InputLines ==
    { <<66, 59, 49, 48, 46, 48>>,
      <<66, 59, 45, 49, 48, 46, 48>>,
      <<65, 59, 49, 50, 46, 56>>,
      <<65, 66>> }

\* The sequences over S of length at most n.
SeqUpTo(S, n) == UNION {[1..k -> S] : k \in 0..n}

Inputs == SeqUpTo(InputLines, MaxLines)

\* The ways to cut n lines into p contiguous pieces: the p - 1 cut points, in
\* order.  A cut falls on a line terminator, so every piece but the last
\* holds a line; the piece after the final terminator holds none.
Cuts(n, p) ==
    {c \in [1..(p - 1) -> 1..n] : \A i \in 1..(p - 2) : c[i] < c[i + 1]}

\* The pieces of `lines` cut at c, each with the fold's identity
\* (HashMap::with_capacity, main.rs:59) as its accumulator.
Pieces(lines, c) ==
    LET p == Len(c) + 1
        lo(i) == IF i = 1 THEN 0 ELSE c[i - 1]
        hi(i) == IF i = p THEN Len(lines) ELSE c[i]
    IN  [i \in 1..p |->
            [lines |-> SubSeq(lines, lo(i) + 1, hi(i)),
             pos |-> 0,
             acc |-> HashMap_new,
             stage |-> "fold"]]

NoCall == [called |-> FALSE, acc |-> HashMap_new, h |-> HashMap_new, out |-> HashMap_new]

Call(acc, h, out) == [called |-> TRUE, acc |-> acc, h |-> h, out |-> out]

\* The orders in which a hash table may hand out its keys.
Orders(keys) ==
    {o \in [1..Cardinality(keys) -> keys] : \A i, j \in DOMAIN o : i # j => o[i] # o[j]}

---------------------------------------------------------------------------
(* main. *)

ParseIdle ==
    /\ ppc = "idle"
    /\ temp_str = <<>>
    /\ idx = 0
    /\ temp = 0
    /\ negative = FALSE
    /\ decimal_found = FALSE
    /\ ret = 0

Init ==
    /\ overflow_checks \in BOOLEAN
    /\ io \in {"ok", "open_fails", "map_fails"}
    /\ content \in Inputs
    /\ pc = "start"
    /\ parts = <<>>
    /\ last_reduce = NoCall
    /\ aggregated_results = HashMap_new
    /\ formatted_results = <<>>
    /\ output_result = <<>>
    /\ stdout = <<>>
    /\ ParseIdle

\* An io::Result dropped, its error not propagated.
Unchecked(ok, next) == next

\* The `?` operator: where main goes on an io::Result.
Try(ok, next) == IF ok THEN next ELSE "io_error"

\* main.rs:50
OpenFile ==
    /\ pc = "start"
    /\ pc' = Try(io # "open_fails", "opened")
    /\ UNCHANGED <<overflow_checks, io, content, parts, last_reduce,
                   aggregated_results, formatted_results, output_result, stdout>>
    /\ UNCHANGED parseVars

\* main.rs:51
MapFile ==
    /\ pc = "opened"
    /\ pc' = Try(io # "map_fails", "mapped")
    /\ UNCHANGED <<overflow_checks, io, content, parts, last_reduce,
                   aggregated_results, formatted_results, output_result, stdout>>
    /\ UNCHANGED parseVars

\* main.rs:56-57: rayon splits the lines into contiguous pieces.
Split ==
    /\ pc = "mapped"
    /\ \E p \in 1..MaxParts : \E c \in Cuts(Len(content), p) :
          parts' = Pieces(content, c)
    /\ pc' = "par"
    /\ UNCHANGED <<overflow_checks, io, content, last_reduce,
                   aggregated_results, formatted_results, output_result, stdout>>
    /\ UNCHANGED parseVars

\* main.rs:58-61: a worker folds the next line of its piece.
FoldLine(i) ==
    /\ pc = "par"
    /\ parts[i].stage = "fold"
    /\ parts[i].pos < Len(parts[i].lines)
    /\ LET r == process_line(parts[i].acc, parts[i].lines[parts[i].pos + 1])
       IN  IF r.panic
           THEN /\ pc' = "panicked"
                /\ parts' = parts
           ELSE /\ pc' = pc
                /\ parts' = [parts EXCEPT ![i].acc = r.v, ![i].pos = @ + 1]
    /\ UNCHANGED <<overflow_checks, io, content, last_reduce,
                   aggregated_results, formatted_results, output_result, stdout>>
    /\ UNCHANGED parseVars

\* main.rs:62: a piece's folded table enters the reduce, which starts from
\* its identity HashMap::new.
FoldDone(i) ==
    /\ pc = "par"
    /\ parts[i].stage = "fold"
    /\ parts[i].pos = Len(parts[i].lines)
    /\ LET r == reduce_op(HashMap_new, parts[i].acc)
       IN  IF r.panic
           THEN /\ pc' = "panicked"
                /\ UNCHANGED <<parts, last_reduce>>
           ELSE /\ pc' = pc
                /\ parts' = [parts EXCEPT ![i].acc = r.v, ![i].stage = "reduced"]
                /\ last_reduce' = Call(HashMap_new, parts[i].acc, r.v)
    /\ UNCHANGED <<overflow_checks, io, content,
                   aggregated_results, formatted_results, output_result, stdout>>
    /\ UNCHANGED parseVars

\* main.rs:62-69: two neighbouring reduced tables are combined, left into acc.
Reduce(i) ==
    /\ pc = "par"
    /\ i < Len(parts)
    /\ parts[i].stage = "reduced"
    /\ parts[i + 1].stage = "reduced"
    /\ LET r == reduce_op(parts[i].acc, parts[i + 1].acc)
           merged == [lines |-> parts[i].lines \o parts[i + 1].lines,
                      pos |-> parts[i].pos + parts[i + 1].pos,
                      acc |-> r.v,
                      stage |-> "reduced"]
       IN  IF r.panic
           THEN /\ pc' = "panicked"
                /\ UNCHANGED <<parts, last_reduce>>
           ELSE /\ pc' = pc
                /\ parts' = SubSeq(parts, 1, i - 1) \o <<merged>>
                              \o SubSeq(parts, i + 2, Len(parts))
                /\ last_reduce' = Call(parts[i].acc, parts[i + 1].acc, r.v)
    /\ UNCHANGED <<overflow_checks, io, content,
                   aggregated_results, formatted_results, output_result, stdout>>
    /\ UNCHANGED parseVars

\* main.rs:56: the reduce's result is bound to aggregated_results.
Join ==
    /\ pc = "par"
    /\ Len(parts) = 1
    /\ parts[1].stage = "reduced"
    /\ aggregated_results' = parts[1].acc
    /\ last_reduce' = NoCall
    /\ pc' = "aggregated"
    /\ UNCHANGED <<overflow_checks, io, content, parts,
                   formatted_results, output_result, stdout>>
    /\ UNCHANGED parseVars

\* main.rs:72-86: the table's entries, in the table's order, formatted.
FormatResults ==
    /\ pc = "aggregated"
    /\ \E o \in Orders(DOMAIN aggregated_results) :
          formatted_results' =
              [i \in DOMAIN o |-> <<o[i], format_result(aggregated_results[o[i]])>>]
    /\ pc' = "formatted"
    /\ UNCHANGED <<overflow_checks, io, content, parts, last_reduce,
                   aggregated_results, output_result, stdout>>
    /\ UNCHANGED parseVars

\* main.rs:89-97: the vector is sorted and the output string built.
BuildOutput ==
    /\ pc = "formatted"
    /\ formatted_results' = sort_unstable_by(formatted_results)
    /\ output_result' = build_output(formatted_results')
    /\ pc' = "built"
    /\ UNCHANGED <<overflow_checks, io, content, parts, last_reduce,
                   aggregated_results, stdout>>
    /\ UNCHANGED parseVars

\* main.rs:100: println!("{}", output_result).
PrintResult ==
    /\ pc = "built"
    /\ stdout' = output_result \o <<NEWLINE>>
    /\ pc' = "done"
    /\ UNCHANGED <<overflow_checks, io, content, parts, last_reduce,
                   aggregated_results, formatted_results, output_result>>
    /\ UNCHANGED parseVars

Next ==
    \/ OpenFile
    \/ MapFile
    \/ Split
    \/ \E i \in DOMAIN parts : FoldLine(i)
    \/ \E i \in DOMAIN parts : FoldDone(i)
    \/ \E i \in DOMAIN parts : Reduce(i)
    \/ Join
    \/ FormatResults
    \/ BuildOutput
    \/ PrintResult

Spec == Init /\ [][Next]_vars

---------------------------------------------------------------------------
(* parse_temperature on its own, one loop iteration per step. *)

DigitBytes == ZERO..(ZERO + 9)

\* [-]d..d.d with at most MaxIntDigits integer digits.
ValueTokens ==
    {sign \o int \o <<DOT, frac>> :
        sign \in {<<>>, <<MINUS>>},
        int \in UNION {[1..k -> DigitBytes] : k \in 1..MaxIntDigits},
        frac \in DigitBytes}

\* Tokens without a digit: "", "-", ".", "-."
DigitlessTokens == {<<>>, <<MINUS>>, <<DOT>>, <<MINUS, DOT>>}

ParseInit ==
    /\ overflow_checks \in BOOLEAN
    /\ io = "ok"
    /\ content = <<>>
    /\ pc = "start"
    /\ parts = <<>>
    /\ last_reduce = NoCall
    /\ aggregated_results = HashMap_new
    /\ formatted_results = <<>>
    /\ output_result = <<>>
    /\ stdout = <<>>
    /\ ppc = "loop"
    /\ temp_str \in ValueTokens \cup DigitlessTokens
    /\ idx = 0
    /\ temp = 0
    /\ negative = FALSE
    /\ decimal_found = FALSE
    /\ ret = 0

\* main.rs:142-154: the loop body on the next byte.
ParseStep ==
    /\ ppc = "loop"
    /\ idx < Len(temp_str)
    /\ LET s == ParseByte([temp |-> temp, negative |-> negative,
                           decimal_found |-> decimal_found, panic |-> FALSE],
                          temp_str[idx + 1])
       IN  /\ ppc' = IF s.panic THEN "panicked" ELSE "loop"
           /\ temp' = s.temp
           /\ negative' = s.negative
           /\ decimal_found' = s.decimal_found
    /\ idx' = idx + 1
    /\ UNCHANGED <<overflow_checks, temp_str, ret>>
    /\ UNCHANGED mainVars

\* main.rs:156-160: the return.
ParseFinish ==
    /\ ppc = "loop"
    /\ idx = Len(temp_str)
    /\ LET r == ParseReturn([temp |-> temp, negative |-> negative,
                             decimal_found |-> decimal_found, panic |-> FALSE])
       IN  /\ ppc' = IF r.panic THEN "panicked" ELSE "returned"
           /\ ret' = IF r.panic THEN ret ELSE r.v
    /\ UNCHANGED <<overflow_checks, temp_str, idx, temp, negative, decimal_found>>
    /\ UNCHANGED mainVars

ParseNext == ParseStep \/ ParseFinish

ParseSpec == ParseInit /\ [][ParseNext]_vars

---------------------------------------------------------------------------
(* What the properties below are stated with. *)

Station(line) == split_once(line, SEMI)[1]

Token(line) == split_once(line, SEMI)[2]

Finished == {"aggregated", "formatted", "built", "done"}

\* The fold of process_line over lines[i..], from the outcome r so far.
RECURSIVE FoldLines(_, _, _)
FoldLines(r, lines, i) ==
    IF r.panic \/ i > Len(lines) THEN r
    ELSE FoldLines(process_line(r.v, lines[i]), lines, i + 1)

\* The whole input folded as one piece and handed to the reduce.
SinglePass(lines) ==
    LET f == FoldLines([panic |-> FALSE, v |-> HashMap_new], lines, 1)
    IN  IF f.panic THEN f ELSE reduce_op(HashMap_new, f.v)

\* The lines of piece p folded so far that name station k.
Seen(p, k) == {j \in 1..p.pos : Station(p.lines[j]) = k}

\* The reading process_line passed to update for line j of piece p.
Reading(p, j) == parse_temperature(Token(p.lines[j])).v

\* The sum, in the integers, of the readings of station k among the first
\* n lines of piece p.
RECURSIVE ReadingSum(_, _, _)
ReadingSum(p, k, n) ==
    IF n = 0 THEN 0
    ELSE ReadingSum(p, k, n - 1)
            + (IF Station(p.lines[n]) = k THEN Reading(p, n) ELSE 0)

\* A value token of the input format: [-] digits . digit
WellFormed(tok) ==
    LET body == IF tok # <<>> /\ tok[1] = MINUS THEN Tail(tok) ELSE tok
        n == Len(body)
    IN  /\ n >= 3
        /\ body[n - 1] = DOT
        /\ \A i \in 1..n : i # n - 1 => is_ascii_digit(body[i])

\* The number the decimal digits among bytes[1..n] write.
RECURSIVE DecimalValue(_, _)
DecimalValue(bytes, n) ==
    IF n = 0 THEN 0
    ELSE IF is_ascii_digit(bytes[n])
    THEN 10 * DecimalValue(bytes, n - 1) + (bytes[n] - ZERO)
    ELSE DecimalValue(bytes, n - 1)

\* The value of a well-formed token, in tenths.
ExactTenths(tok) ==
    IF tok[1] = MINUS THEN 0 - DecimalValue(tok, Len(tok)) ELSE DecimalValue(tok, Len(tok))

HasDigit(tok) == \E i \in 1..Len(tok) : is_ascii_digit(tok[i])

\* a is before b in byte order.
ByteLess(a, b) ==
    \E i \in 1..(Len(a) + 1) :
        /\ i <= Len(b)
        /\ \A j \in 1..(i - 1) : a[j] = b[j]
        /\ (i = Len(a) + 1 \/ a[i] < b[i])

\* The keys of "k=v, k=v, ..." in the order written.
RECURSIVE KeysOf(_)
KeysOf(body) ==
    IF body = <<>> THEN <<>>
    ELSE LET eq == position(body, EQUALS)
             rest == SubSeq(body, eq + 1, Len(body))
             cm == position(rest, COMMA)
         IN  <<SubSeq(body, 1, eq - 1)>>
                \o (IF cm = 0 THEN <<>> ELSE KeysOf(SubSeq(rest, cm + 2, Len(rest))))

\* The keys of an output block "{...}\n".
OutputKeys(out) == KeysOf(SubSeq(out, 2, Len(out) - 2))

\* Two outcomes that agree: both panic, or both give the same value.
Same(r1, r2) == r1.panic = r2.panic /\ (~r1.panic => r1.v = r2.v)

\* aggregate applied to an outcome.
AggregateThen(r, d) == IF r.panic THEN r ELSE aggregate(r.v, d)

\* aggregate of a value into an outcome.
AggregateInto(d, r) == IF r.panic THEN r ELSE aggregate(d, r.v)

---------------------------------------------------------------------------
(* The properties. *)

\* C1: however the lines are split into pieces and in whatever order the
\* pieces' tables are reduced, the run aborts exactly when the single pass
\* over the whole input aborts, and otherwise ends with the single pass's table.
C1_PartitionInvariance ==
    LET one == SinglePass(content)
    IN  /\ pc = "panicked" => one.panic
        /\ pc \in Finished => ~one.panic /\ aggregated_results = one.v

\* C2: in every table, an entry with count > 0 has min_temp <= r <= max_temp
\* for every reading r folded into it, and total_temp is the integer sum of
\* those readings.
C2_MinMaxExactSum ==
    \A i \in DOMAIN parts : \A k \in DOMAIN parts[i].acc :
        LET p == parts[i]
            d == p.acc[k]
        IN  d.count > 0 =>
              /\ \A j \in Seen(p, k) :
                    d.min_temp <= Reading(p, j) /\ Reading(p, j) <= d.max_temp
              /\ d.total_temp = ReadingSum(p, k, p.pos)

\* C3: every entry of the final table has count >= 1 and its mean between
\* its minimum and its maximum: min_temp * count <= total_temp <= max_temp * count.
C3_MeanBetweenMinMax ==
    pc \in Finished =>
        \A k \in DOMAIN aggregated_results :
            LET d == aggregated_results[k]
            IN  /\ d.count >= 1
                /\ d.min_temp * d.count <= d.total_temp
                /\ d.total_temp <= d.max_temp * d.count

\* C4: on a value token of the input format parse_temperature does not
\* overflow and returns the token's value in tenths, sign included.
C4_ParseExact ==
    WellFormed(temp_str) =>
        /\ ppc # "panicked"
        /\ ppc = "returned" => ret = ExactTenths(temp_str)

\* C5: no line whose value token has no digit (a line without ';' among
\* them) is folded into a table.
C5_DigitlessNotFolded ==
    \A i \in DOMAIN parts : \A j \in 1..parts[i].pos :
        HasDigit(Token(parts[i].lines[j]))

\* C6: aggregate is commutative and associative on the entries of the
\* tables being reduced: for a station in neighbouring tables, either order
\* and either grouping gives the same outcome.
C6_AggregateAssocComm ==
    \A i \in DOMAIN parts :
        /\ (i + 1 \in DOMAIN parts /\ parts[i].stage = "reduced"
                /\ parts[i + 1].stage = "reduced") =>
              \A k \in DOMAIN parts[i].acc \cap DOMAIN parts[i + 1].acc :
                  Same(aggregate(parts[i].acc[k], parts[i + 1].acc[k]),
                       aggregate(parts[i + 1].acc[k], parts[i].acc[k]))
        /\ (i + 2 \in DOMAIN parts /\ parts[i].stage = "reduced"
                /\ parts[i + 1].stage = "reduced" /\ parts[i + 2].stage = "reduced") =>
              \A k \in DOMAIN parts[i].acc \cap DOMAIN parts[i + 1].acc
                          \cap DOMAIN parts[i + 2].acc :
                  LET a == parts[i].acc[k]
                      b == parts[i + 1].acc[k]
                      c == parts[i + 2].acc[k]
                  IN  Same(AggregateThen(aggregate(a, b), c),
                           AggregateInto(a, aggregate(b, c)))

\* C7: the reduce closure leaves an entry found in only one of its two
\* tables as it was, and with an empty table on either side returns the
\* other table.
C7_ReduceCarriesOver ==
    last_reduce.called =>
        LET a == last_reduce.acc
            h == last_reduce.h
            o == last_reduce.out
        IN  /\ \A k \in DOMAIN a \ DOMAIN h : k \in DOMAIN o /\ o[k] = a[k]
            /\ \A k \in DOMAIN h \ DOMAIN a : k \in DOMAIN o /\ o[k] = h[k]
            /\ DOMAIN a = {} => o = h
            /\ DOMAIN h = {} => o = a

\* C7's case: a reduce of two tables each holding a station the other lacks.
C7_Witness ==
    /\ last_reduce.called
    /\ DOMAIN last_reduce.acc \ DOMAIN last_reduce.h # {}
    /\ DOMAIN last_reduce.h \ DOMAIN last_reduce.acc # {}

\* C8: the keys written to the output are in strictly ascending byte order
\* (so none is written twice), and they are the final table's keys.
C8_OutputKeysAscending ==
    pc \in {"built", "done"} =>
        LET keys == OutputKeys(output_result)
        IN  /\ \A i, j \in DOMAIN keys : i < j => ByteLess(keys[i], keys[j])
            /\ {keys[i] : i \in DOMAIN keys} = DOMAIN aggregated_results

\* C8's case: output written for an input whose first station is not the
\* least of its stations.
C8_Witness ==
    /\ pc = "done"
    /\ Cardinality(DOMAIN aggregated_results) >= 2
    /\ \E k \in DOMAIN aggregated_results : ByteLess(k, Station(content[1]))

\* C9: when the file cannot be opened or mapped, main stops at the error:
\* no line is split off or folded, no output is built and nothing is printed.
C9_IoErrorBeforeProcessing ==
    /\ io = "open_fails" => pc \in {"start", "io_error"}
    /\ io = "map_fails" => pc \in {"start", "opened", "io_error"}
    /\ io # "ok" => parts = <<>> /\ formatted_results = <<>>
                      /\ output_result = <<>> /\ stdout = <<>>

\* C9's case: main has returned the error of a failed mmap of a file with lines.
C9_Witness == pc = "io_error" /\ io = "map_fails" /\ content # <<>>

===========================================================================
